---- MODULE Spec2Model ----
(***************************************************************************)
(* Order finalization and payment reconciliation of backend/app.py:        *)
(* begin-checkout (sumup_create_checkout), the redirect callback           *)
(* (sumup_callback), the webhook (sumup_webhook), the direct client        *)
(* confirmation (create_paid_order), and the helpers they share            *)
(* (persist_paid_order, clear_user_cart_state, the cart normalizer).       *)
(*                                                                         *)
(* Requests run in threads (Workers).  Every database operation and every  *)
(* call to the payment provider is one atomic step of the request that     *)
(* makes it; the steps of different requests interleave freely.            *)
(*                                                                         *)
(* Money is counted in cents once normalized; numbers in request payloads  *)
(* are counted in thousandths, so that round(x, 2) and int(float(x)) do    *)
(* something.  Strings that the code tests for emptiness use "" for a      *)
(* missing value; a checkout identifier is a number, 0 when missing.       *)
(***************************************************************************)
EXTENDS Integers, Sequences, FiniteSets, TLC

\* Requests started in one run.
MaxOps == 3

\* Request threads.
Workers == {1, 2}

\* Order references.  uuid4 draws one that was never used; a reference that
\* a client makes up itself is as new as one uuid4 draws, so a request names
\* a reference already in use or none.
OrderIds == {"R1", "R2", "R3"}

(***************************************************************************)
(* Python values of a request payload.                                     *)
(***************************************************************************)
PyNone == [t |-> "none", v |-> 0]
PyNum(n) == [t |-> "num", v |-> n]
PyText == [t |-> "text", v |-> 0]

\* float(value) succeeds: a number or a numeric string (both "num" here).
\* A float that is not finite is returned as the default.
safe_float(value, default) ==
    IF value.t = "num" THEN value.v ELSE default

\* int(x) of a float counted in thousandths: truncation toward zero.
PyInt(m) == IF m >= 0 THEN m \div 1000 ELSE -((-m) \div 1000)

Max(a, b) == IF a >= b THEN a ELSE b

\* int(float(value)), then max(default, numeric).  float("inf") converts,
\* int() of it raises OverflowError, which the handler does not catch here:
\* the payloads of this model carry no infinite quantity.
safe_positive_int(value, default) ==
    IF value.t = "num" THEN Max(default, PyInt(value.v)) ELSE default

\* round(x, 2): thousandths to cents, ties to even.
Round2(m) ==
    LET q == m \div 10
        r == m % 10
    IN  IF r > 5 \/ (r = 5 /\ q % 2 = 1) THEN q + 1 ELSE q

\* a or b or c or d, on strings.
FirstNonEmpty(s) ==
    IF \E i \in 1..Len(s) : s[i] # ""
    THEN s[CHOOSE i \in 1..Len(s) : s[i] # "" /\ \A j \in 1..(i - 1) : s[j] = ""]
    ELSE ""

\* A variant that keeps a quantity below 1 as 0.
normalize_order_item_no_default(payload) ==
    LET product_id == FirstNonEmpty(<<payload.product_id, payload.productId,
                                      payload.id, payload.product>>)
    IN  IF product_id = "" THEN <<>>
        ELSE << [product_id |-> product_id,
                 quantity |-> safe_positive_int(payload.quantity, 0),
                 name |-> payload.name,
                 price |-> Round2(safe_float(payload.price, 0)),
                 variation_id |-> payload.variation_id] >>

\* normalize_order_item: <<item>>, or <<>> for None.
normalize_order_item(payload) ==
    LET product_id == FirstNonEmpty(<<payload.product_id, payload.productId,
                                      payload.id, payload.product>>)
        q == safe_positive_int(payload.quantity, 1)
    IN  IF product_id = "" THEN <<>>
        ELSE << [product_id |-> product_id,
                 quantity |-> IF q = 0 THEN 1 ELSE q,
                 name |-> payload.name,
                 price |-> Round2(safe_float(payload.price, 0)),
                 variation_id |-> payload.variation_id] >>

\* The loop of sumup_create_checkout that keeps the entries that normalize.
RECURSIVE NormalizeItems(_)
NormalizeItems(raw) ==
    IF raw = <<>> THEN <<>>
    ELSE normalize_order_item(Head(raw)) \o NormalizeItems(Tail(raw))

\* calculate_order_totals(items)["subtotal"], in cents.
RECURSIVE calculate_order_totals(_)
calculate_order_totals(items) ==
    IF items = <<>> THEN 0
    ELSE Head(items).price * Max(0, Head(items).quantity)
         + calculate_order_totals(Tail(items))

RawItem(pid, alias, qty, price) ==
    [product_id |-> pid, productId |-> "", id |-> alias, product |-> "",
     quantity |-> qty, price |-> price, name |-> "Lime", variation_id |-> ""]

\* Submitted carts: one item of 25.00; the cart of the subtotal example; a
\* cart whose only entry names no product.
CartA == << RawItem("P1", "", PyNum(1000), PyNum(25000)) >>
CartB == << RawItem("", "P1", PyNum(2000), PyNum(10004)),
            RawItem("P2", "", PyNum(0), PyText) >>
CartNoProduct == << RawItem("", "", PyNone, PyText) >>
CartEmpty == <<>>

\* normalize_email on the identities of this model, which are already
\* stripped and lower-case, except "A@X".
normalize_email(e) == IF e = "A@X" THEN "a@x" ELSE e

\* The user document's _id for a JWT identity ("" when there is no user).
UserIdOf(email) == IF email = "" THEN "" ELSE "U-" \o email

VARIABLES
    scope,         \* what the requests of this run are drawn from (Scopes)
    orders,        \* db.orders, in natural (insertion) order
    provider,      \* the provider's checkouts; the identifier is the index
    req,           \* per worker: the request it is running and its locals
    nOps,          \* requests accepted so far; also the clock of utcnow()
    usedRefs,      \* order references given to an order so far
    sumup_config,  \* SUMUP_CLIENT_ID and SUMUP_CLIENT_SECRET are both set
    emails,        \* receipt email attempts, per order reference
    paidWrites,    \* ledger writes that set payment_status "paid", per reference
    overlap,       \* some request started while another was in flight
    started,       \* how many requests of each kind were accepted so far
    audits,        \* "Recorded paid order" audit log entries, per order reference
    clock,         \* datetime.utcnow(), in seconds, for get_sumup_access_token
    sumup_token_cache,  \* _sumup_token_cache: access_token and expires_at
    auth,          \* per worker: its call of get_sumup_access_token
    issued,        \* the tokens the provider issued: when each one expires
    nCalls,        \* calls of get_sumup_access_token so far
    raw_items,     \* payload["items"] of a begin-checkout request
    raw_total,     \* payload["total"] of that request
    normalized_items,   \* the entries that normalize_order_item kept
    calculated_total    \* totals["subtotal"], or why there is none

\* The state of the ledger and of the requests.
StoreVars == <<scope, orders, provider, req, nOps, usedRefs, emails,
               paidWrites, overlap, started, audits>>

\* The state of the token cache and of the calls that use it.
TokenVars == <<clock, sumup_token_cache, auth, issued, nCalls>>

\* A cart on its way through the normalizer.
CartVars == <<raw_items, raw_total, normalized_items, calculated_total>>

vars == <<scope, orders, provider, req, nOps, usedRefs, sumup_config, emails,
          paidWrites, overlap, started, audits, clock, sumup_token_cache,
          auth, issued, nCalls, raw_items, raw_total, normalized_items,
          calculated_total>>

Kinds == {"create_checkout", "callback", "webhook", "create_paid_order"}

\* A webhook envelope: its type, and what its payload says of the payment
\* besides the two identifiers.  NoEvent is the envelope of a request that
\* is not a webhook.
Event(type, amount, currency, status) ==
    [type |-> type, amount |-> amount, currency |-> currency, status |-> status]

NoEvent == Event("", 0, "", "")

Idle ==
    [kind |-> "idle", pc |-> "idle", ref |-> "", cid |-> 0,
     doc |-> <<>>, ver |-> <<>>, args |-> <<>>,
     fetched |-> FALSE, wrote |-> FALSE, paidAtStart |-> FALSE, seq |-> 0,
     resp |-> "", event |-> NoEvent, answer |-> "", cart |-> <<>>,
     token |-> ""]

\* _sumup_token_cache = {"access_token": None, "expires_at": None}; a token
\* is the number of its issue, 0 for None.
EmptyCache == [access_token |-> 0, expires_at |-> PyNone]

\* A worker that is not in get_sumup_access_token.
AuthIdle ==
    [pc |-> "idle", now |-> 0, access_token |-> 0, expires_in |-> 0,
     result |-> 0, posted |-> FALSE, hit |-> FALSE]

\* A checkout identifier that the provider never gave out.
UnknownCheckout == 9

\* A run draws its requests from one of these: two requests in flight at a
\* time over few inputs, or one request at a time over more of them.
Scopes ==
    { [name |-> "race", threads |-> {1, 2}, carts |-> {CartA, CartNoProduct},
       identities |-> {"a@x"}, emails |-> {""}, direct |-> {"plain", "empty"},
       settled |-> {"PAID"}, bodies |-> {"silent"}, strangers |-> {}],
      [name |-> "amounts", threads |-> {1}, carts |-> {CartA, CartB, CartNoProduct},
       identities |-> {"", "a@x"}, emails |-> {""},
       direct |-> {"plain", "checkout", "zero", "empty"}, settled |-> {"PAID"},
       bodies |-> {"silent"}, strangers |-> {UnknownCheckout}],
      [name |-> "purchasers", threads |-> {1},
       carts |-> {CartA, CartNoProduct, CartEmpty},
       identities |-> {"", "a@x"}, emails |-> {"", "A@X"},
       direct |-> {"plain", "empty"}, settled |-> {"PAID", "FAILED"},
       bodies |-> {"silent", "forged"}, strangers |-> {}] }

Init ==
    /\ scope \in Scopes
    /\ orders = <<>>
    /\ provider = <<>>
    /\ req = [w \in Workers |-> Idle]
    /\ nOps = 0
    /\ usedRefs = {}
    /\ sumup_config \in BOOLEAN
    /\ emails = [r \in OrderIds |-> 0]
    /\ paidWrites = [r \in OrderIds |-> 0]
    /\ overlap = FALSE
    /\ started = [k \in Kinds |-> 0]
    /\ audits = [r \in OrderIds |-> 0]
    /\ clock = 0
    /\ sumup_token_cache = EmptyCache
    /\ auth = [w \in Workers |-> AuthIdle]
    /\ issued = <<>>
    /\ nCalls = 0
    /\ raw_items = <<>>
    /\ raw_total = PyNone
    /\ normalized_items = <<>>
    /\ calculated_total = PyNone

(***************************************************************************)
(* The ledger: db.orders.                                                  *)
(***************************************************************************)
Matching(os, ref) == {i \in 1..Len(os) : os[i].order_id = ref}

\* find_one({"order_id": ref}): the first match in natural order.
FindOne(os, ref) ==
    IF Matching(os, ref) = {} THEN <<>>
    ELSE << os[CHOOSE i \in Matching(os, ref) : \A j \in Matching(os, ref) : i <= j] >>

IsPaid(o) == o.payment_status \in {"paid", "captured"}

PaidRecords(ref) == {i \in Matching(orders, ref) : orders[i].payment_status = "paid"}


(***************************************************************************)
(* Requests.                                                               *)
(***************************************************************************)
\* get_jwt_identity(): a signed-in user ("a@x"), or nobody ("").
Identities == scope.identities

\* The email field of a request payload: absent, or the same purchaser's
\* address as typed ("A@X").
PayloadEmails == scope.emails

Carts == scope.carts

\* uuid4: a reference nobody used before.
FreshRef == CHOOSE r \in OrderIds \ usedRefs : TRUE

\* A request starts on the first free worker.
CanStart(w) ==
    /\ nOps < MaxOps
    /\ w \in scope.threads
    /\ req[w].pc = "idle"
    /\ \A v \in Workers : req[v].pc # "respond"
    /\ \A v \in Workers : v < w => req[v].pc # "idle"

Started(w, kind, ref, cid) ==
    [Idle EXCEPT !.kind = kind, !.ref = ref, !.cid = cid, !.seq = nOps + 1,
                 !.paidAtStart = (FindOne(orders, ref) # <<>>
                                   /\ IsPaid(FindOne(orders, ref)[1]))]

\* The response goes out.  The locals are dropped; the request keeps what it
\* did until the worker takes the next one.
Return(w, r, resp) ==
    req' = [req EXCEPT ![w] = [r EXCEPT !.pc = "respond", !.resp = resp,
                                        !.doc = <<>>, !.ver = <<>>, !.args = <<>>]]

Goto(w, r, pc) ==
    req' = [req EXCEPT ![w] = [r EXCEPT !.pc = pc]]

\* A request that is refused before it touches the ledger or the provider
\* leaves no trace; one that goes on is counted.
Accepted(w, kind, accepted) ==
    IF accepted
    THEN /\ nOps' = nOps + 1
         /\ overlap' = (overlap \/ \E v \in Workers : v # w /\ req[v].pc # "idle")
         /\ started' = [started EXCEPT ![kind] = @ + 1]
    ELSE UNCHANGED <<nOps, overlap, started>>

Fixed ==
    /\ UNCHANGED <<scope, sumup_config, audits>>
    /\ UNCHANGED TokenVars /\ UNCHANGED CartVars

KeepClock ==
    /\ UNCHANGED <<scope, nOps, usedRefs, sumup_config, overlap, started>>
    /\ UNCHANGED TokenVars /\ UNCHANGED CartVars

\* A step of a request in flight; a response that is ready goes out first.
At(w, kind, pc) ==
    /\ req[w].kind = kind /\ req[w].pc = pc
    /\ \A v \in Workers : req[v].pc # "respond"

\* The worker is free again.
Respond(w) ==
    /\ req[w].pc = "respond"
    /\ req' = [req EXCEPT ![w] = Idle]
    /\ KeepClock
    /\ UNCHANGED <<orders, provider, emails, paidWrites, audits>>

Bump(f, ref) == IF ref \in DOMAIN f THEN [f EXCEPT ![ref] = @ + 1] ELSE f

(***************************************************************************)
(* sumup_create_checkout                                                   *)
(***************************************************************************)
pending_order(ref, items, total, email, jwt, id) ==
    [_id |-> id, order_id |-> ref, checkout_id |-> 0, items |-> items,
     total |-> total, currency |-> "EUR", payment_status |-> "pending",
     status |-> "pending", payment_method |-> "SUMUP_CARD", email |-> email,
     customer_name |-> "Ann", created_at |-> 0, user |-> jwt,
     user_id |-> UserIdOf(jwt), shipping_address |-> "NL"]

\* A variant that does not test whether an item survived.
CreateCheckoutOutcomeAnyItems(items, token) ==
    IF ~sumup_config THEN "500 configuration"
    ELSE IF token = "error" THEN "500 authentication"
    ELSE "insert"

\* A variant that asks for the token before it tests the configuration.
CreateCheckoutOutcomeTokenFirst(items, token) ==
    IF ~sumup_config \/ token = "error" THEN "500 authentication"
    ELSE IF items = <<>> THEN "400 no valid items"
    ELSE "insert"

\* The tests of begin-checkout in their order: the configuration, the
\* surviving items, get_sumup_access_token().
CreateCheckoutOutcome(items, token) ==
    IF ~sumup_config THEN "500 configuration"
    ELSE IF items = <<>> THEN "400 no valid items"
    ELSE IF token = "error" THEN "500 authentication"
    ELSE "insert"

\* Up to get_sumup_access_token(): the configuration check, the normalizer,
\* the order reference, the token.
CreateCheckoutStart(w) ==
    \E cart \in Carts, orderId \in usedRefs \cup {""}, jwt \in Identities,
       cemail \in PayloadEmails, token \in {"ok", "error"} :
        /\ CanStart(w)
        /\ orderId = "" => OrderIds \ usedRefs # {}
        /\ LET items == NormalizeItems(cart)
               ref == IF orderId # "" THEN orderId ELSE FreshRef
               email == normalize_email(IF cemail # "" THEN cemail ELSE jwt)
               outcome == CreateCheckoutOutcome(items, token)
               r == [Started(w, "create_checkout", ref, 0) EXCEPT
                        !.cart = cart,
                        !.token = IF outcome \in {"500 authentication", "insert"}
                                  THEN token ELSE ""]
               doc == pending_order(ref, items, calculate_order_totals(items),
                                    email, jwt, nOps + 1)
               refused == outcome # "insert"
           IN  /\ IF refused THEN Return(w, r, outcome)
                  ELSE Goto(w, [r EXCEPT !.doc = <<doc>>], "insert")
               /\ Accepted(w, "create_checkout", ~refused)
               /\ usedRefs' = IF refused THEN usedRefs ELSE usedRefs \cup {ref}
        /\ Fixed
        /\ UNCHANGED <<orders, provider, emails, paidWrites>>

\* db.orders.insert_one(pending_order)
CreateCheckoutInsert(w) ==
    /\ At(w, "create_checkout", "insert")
    /\ orders' = Append(orders, [req[w].doc[1] EXCEPT !.created_at = nOps])
    /\ Goto(w, req[w], "post")
    /\ KeepClock
    /\ UNCHANGED <<provider, emails, paidWrites, audits>>

\* POST /v0.1/checkouts with the order reference and the computed total.
CreateCheckoutPost(w) ==
    \E answer \in {"201", "rejected", "exception"} :
        /\ At(w, "create_checkout", "post")
        /\ IF answer = "201"
           THEN /\ provider' = Append(provider,
                       [checkout_reference |-> req[w].ref,
                        amount |-> req[w].doc[1].total,
                        currency |-> "EUR", status |-> "PENDING"])
                /\ Goto(w, [req[w] EXCEPT !.cid = Len(provider) + 1], "update")
           ELSE /\ provider' = provider
                /\ Return(w, req[w], IF answer = "rejected"
                                     THEN "4xx session not created"
                                     ELSE "500 internal")
        /\ KeepClock
        /\ UNCHANGED <<orders, emails, paidWrites, audits>>

\* update_one({"order_id": ref}, {"$set": {"checkout_id": id}}): the first match.
SetCheckoutId(os, ref, cid) ==
    [i \in 1..Len(os) |->
        IF FindOne(os, ref) # <<>> /\ os[i]._id = FindOne(os, ref)[1]._id
        THEN [os[i] EXCEPT !.checkout_id = cid] ELSE os[i]]

CreateCheckoutUpdate(w) ==
    /\ At(w, "create_checkout", "update")
    /\ orders' = SetCheckoutId(orders, req[w].ref, req[w].cid)
    /\ Return(w, req[w], "200 checkout created")
    /\ KeepClock
    /\ UNCHANGED <<provider, emails, paidWrites, audits>>

(***************************************************************************)
(* The payment provider.                                                   *)
(***************************************************************************)
\* The purchaser pays, or fails to pay, on the hosted checkout page.
ProviderSettles ==
    \E c \in 1..Len(provider), s \in scope.settled :
        /\ provider[c].status = "PENDING"
        /\ \A v \in Workers : req[v].pc # "respond"
        /\ provider' = [provider EXCEPT ![c].status = s]
        /\ KeepClock
        /\ UNCHANGED <<orders, req, emails, paidWrites, audits>>

PaidEquivalent(status) == status \in {"PAID", "SUCCESSFUL"}

\* GET /v0.1/checkouts/{id}: the answers the provider can give.
CheckoutAnswers(cid) ==
    {"exception", "non200"} \cup (IF cid \in 1..Len(provider) THEN {"200"} ELSE {})

\* A checkout identifier named by a request: none, one the provider gave, or
\* one it never gave.
CheckoutInputs == (0..Len(provider)) \cup scope.strangers

\* A variant that does not pass the customer name and the user on.
VerifiedArgsNameless(order, ref, cid, data) ==
    [items |-> order.items, total |-> data.amount, currency |-> data.currency,
     order_id |-> ref, checkout |-> cid, email |-> order.email,
     customer_name |-> "", user |-> "",
     user_id |-> order.user_id, method |-> "SUMUP_CARD",
     shipping |-> order.shipping_address]

(***************************************************************************)
(* persist_paid_order and clear_user_cart_state, shared by the callback,   *)
(* the webhook and the direct confirmation.                                *)
(***************************************************************************)
\* The arguments of persist_paid_order taken from a stored order and the
\* provider's verified checkout (sumup_callback, sumup_webhook).
VerifiedArgs(order, ref, cid, data) ==
    [items |-> order.items, total |-> data.amount, currency |-> data.currency,
     order_id |-> ref, checkout |-> cid, email |-> order.email,
     customer_name |-> order.customer_name, user |-> order.user,
     user_id |-> order.user_id, method |-> "SUMUP_CARD",
     shipping |-> order.shipping_address]

\* A variant that stamps created_at anew on every write.
SetBaseFieldsStamped(o, a, existing) ==
    [o EXCEPT !.order_id = a.order_id,
              !.checkout_id = a.checkout,
              !.items = a.items,
              !.total = a.total,
              !.currency = a.currency,
              !.payment_status = "paid",
              !.status = "paid",
              !.payment_method = IF a.method = "" THEN "FAKE_TEST" ELSE a.method,
              !.email = normalize_email(a.email),
              !.customer_name = a.customer_name,
              !.shipping_address = IF a.shipping # "" THEN a.shipping ELSE @,
              !.user_id = IF a.user_id # "" THEN a.user_id ELSE @,
              !.user = IF a.user # "" THEN a.user ELSE @,
              !.created_at = nOps]

\* base_fields written over the stored document: {"$set": base_fields}.
\* created_at is the one read by find_one; the optional fields are set only
\* when the caller passed a value.
SetBaseFields(o, a, existing) ==
    [o EXCEPT !.order_id = a.order_id,
              !.checkout_id = a.checkout,
              !.items = a.items,
              !.total = a.total,
              !.currency = a.currency,
              !.payment_status = "paid",
              !.status = "paid",
              !.payment_method = IF a.method = "" THEN "FAKE_TEST" ELSE a.method,
              !.email = normalize_email(a.email),
              !.customer_name = a.customer_name,
              !.shipping_address = IF a.shipping # "" THEN a.shipping ELSE @,
              !.user_id = IF a.user_id # "" THEN a.user_id ELSE @,
              !.user = IF a.user # "" THEN a.user ELSE @,
              !.created_at = existing.created_at]

\* base_fields inserted as a new document.
NewPaidOrder(a, id, now) ==
    [_id |-> id, order_id |-> a.order_id, checkout_id |-> a.checkout,
     items |-> a.items, total |-> a.total, currency |-> a.currency,
     payment_status |-> "paid", status |-> "paid",
     payment_method |-> IF a.method = "" THEN "FAKE_TEST" ELSE a.method,
     email |-> normalize_email(a.email), customer_name |-> a.customer_name,
     created_at |-> now, user |-> a.user, user_id |-> a.user_id,
     shipping_address |-> a.shipping]

\* update_one({"_id": existing_order["_id"]}, {"$set": base_fields})
UpdateById(os, existing, a) ==
    [i \in 1..Len(os) |->
        IF os[i]._id = existing._id THEN SetBaseFields(os[i], a, existing)
        ELSE os[i]]

InPersist(w) == req[w].kind \in {"callback", "webhook", "create_paid_order"}

\* existing_order = db.orders.find_one({"order_id": effective_order_id})
PersistFind(w) ==
    /\ At(w, req[w].kind, "persist_find") /\ InPersist(w)
    /\ Goto(w, [req[w] EXCEPT !.doc = FindOne(orders, req[w].ref)], "persist_write")
    /\ KeepClock
    /\ UNCHANGED <<orders, provider, emails, paidWrites, audits>>

\* The write of persist_paid_order: update_one when find_one returned a
\* document, insert_one otherwise.
PersistWrite(w) ==
    /\ At(w, req[w].kind, "persist_write") /\ InPersist(w)
    /\ orders' = IF req[w].doc # <<>>
                 THEN UpdateById(orders, req[w].doc[1], req[w].args[1])
                 ELSE Append(orders, NewPaidOrder(req[w].args[1], req[w].seq, nOps))
    /\ paidWrites' = IF req[w].doc = <<>>
                      \/ \E i \in 1..Len(orders) : orders[i]._id = req[w].doc[1]._id
                   THEN Bump(paidWrites, req[w].ref) ELSE paidWrites
    /\ Goto(w, [req[w] EXCEPT !.wrote = TRUE], "persist_email")
    /\ KeepClock
    /\ UNCHANGED <<provider, emails, audits>>

InternalError(kind) ==
    IF kind = "create_paid_order" THEN "500 unhandled" ELSE "500 internal"

\* send_order_confirmation_email, attempted when the order has an email:
\* it reports sent or not sent, or raises (the template, the mail client).
PersistEmail(w) ==
    \E outcome \in {"sent", "not sent", "raised"} :
        /\ At(w, req[w].kind, "persist_email") /\ InPersist(w)
        /\ IF normalize_email(req[w].args[1].email) = ""
           THEN /\ emails' = emails
                /\ Goto(w, req[w], "clear")
           ELSE /\ emails' = Bump(emails, req[w].ref)
                /\ IF outcome = "raised"
                   THEN Return(w, req[w], InternalError(req[w].kind))
                   ELSE Goto(w, req[w], "clear")
        /\ KeepClock
        /\ UNCHANGED <<orders, provider, paidWrites, audits>>

\* A variant of the filter without the test of the payment status.
CartResidueAnyStatus(o, user_email, user_identifier, pending_order_id) ==
    \/ normalize_email(user_email) # ""
       /\ normalize_email(user_email) \in {o.email, o.user}
    \/ user_identifier # "" /\ o.user_id = user_identifier
    \/ pending_order_id # "" /\ o.order_id = pending_order_id

\* The filter of delete_many in clear_user_cart_state.
CartResidue(o, user_email, user_identifier, pending_order_id) ==
    /\ o.payment_status = "pending"
    /\ \/ normalize_email(user_email) # ""
          /\ normalize_email(user_email) \in {o.email, o.user}
       \/ user_identifier # "" /\ o.user_id = user_identifier
       \/ pending_order_id # "" /\ o.order_id = pending_order_id

clear_user_cart_state(os, user_email, user_identifier, pending_order_id) ==
    SelectSeq(os, LAMBDA o :
        ~CartResidue(o, user_email, user_identifier, pending_order_id))

Success(kind) ==
    CASE kind = "callback" -> "200 payment successful"
      [] kind = "webhook" -> "200 ok"
      [] OTHER -> "200 order saved"

\* clear_user_cart_state as each handler calls it, then the response; the
\* direct confirmation records its audit log entry in between.
ClearCart(w) ==
    /\ At(w, req[w].kind, "clear") /\ InPersist(w)
    /\ LET a == req[w].args[1]
       IN  orders' =
             IF req[w].kind = "create_paid_order"
             THEN clear_user_cart_state(orders,
                      IF a.email # "" THEN a.email ELSE a.user, a.user_id, "")
             ELSE clear_user_cart_state(orders, a.email, a.user_id, req[w].ref)
    /\ audits' = IF req[w].kind = "create_paid_order"
                  THEN Bump(audits, req[w].ref) ELSE audits
    /\ Return(w, req[w], Success(req[w].kind))
    /\ KeepClock
    /\ UNCHANGED <<provider, emails, paidWrites>>

(***************************************************************************)
(* sumup_callback                                                          *)
(***************************************************************************)
\* The query parameters, the status hint and get_sumup_access_token().
CallbackStart(w) ==
    \E ref \in usedRefs \cup {""}, cid \in CheckoutInputs,
       status \in {"", "FAILED"}, token \in {"ok", "error"} :
        /\ CanStart(w)
        /\ LET r == [Started(w, "callback", ref, cid) EXCEPT
                        !.answer = IF ref # "" /\ status # "FAILED"
                                      /\ (~sumup_config \/ token = "error")
                                   THEN "no token" ELSE ""]
               refused == ref = "" \/ status = "FAILED" \/ ~sumup_config
                          \/ token = "error"
           IN  /\ IF ref = "" THEN Return(w, r, "400 missing checkout reference")
                  ELSE IF status = "FAILED" THEN Return(w, r, "400 payment failed")
                  ELSE IF ~sumup_config \/ token = "error"
                       THEN Return(w, r, "500 internal")
                  ELSE Goto(w, r, IF cid = 0 THEN "lookup" ELSE "fetch")
               /\ Accepted(w, "callback", ~refused)
        /\ Fixed
        /\ UNCHANGED <<orders, provider, usedRefs, emails, paidWrites>>

\* No checkout_id in the query: the one stored on the order.
CallbackLookup(w) ==
    /\ At(w, "callback", "lookup")
    /\ LET order == FindOne(orders, req[w].ref)
           cid == IF order = <<>> THEN 0 ELSE order[1].checkout_id
       IN  IF cid = 0 THEN Return(w, req[w], "400 unknown checkout")
           ELSE Goto(w, [req[w] EXCEPT !.cid = cid], "fetch")
    /\ KeepClock
    /\ UNCHANGED <<orders, provider, emails, paidWrites, audits>>

\* A variant that takes any status of a 200 answer for a payment.
CallbackFetchAnyStatus(w) ==
    \E answer \in CheckoutAnswers(req[w].cid) :
        /\ At(w, "callback", "fetch")
        /\ LET r == [req[w] EXCEPT !.fetched = TRUE, !.answer = answer]
           IN  IF answer = "exception" THEN Return(w, r, "500 internal")
               ELSE IF answer = "non200" THEN Return(w, r, "502 failed to verify")
               ELSE Goto(w, [r EXCEPT !.ver = <<provider[r.cid]>>], "find")
        /\ KeepClock
        /\ UNCHANGED <<orders, provider, emails, paidWrites, audits>>

\* A variant that goes on with the checkout when the provider's answer is
\* not a 200.
CallbackFetchLenient(w) ==
    \E answer \in CheckoutAnswers(req[w].cid) :
        /\ At(w, "callback", "fetch")
        /\ LET r == [req[w] EXCEPT !.fetched = TRUE, !.answer = answer]
           IN  IF answer = "exception" THEN Return(w, r, "500 internal")
               ELSE IF r.cid \notin 1..Len(provider)
                    THEN Return(w, r, "502 failed to verify")
               ELSE IF ~PaidEquivalent(provider[r.cid].status)
                    THEN Return(w, r, "400 payment status")
               ELSE Goto(w, [r EXCEPT !.ver = <<provider[r.cid]>>], "find")
        /\ KeepClock
        /\ UNCHANGED <<orders, provider, emails, paidWrites, audits>>

\* GET /v0.1/checkouts/{checkout_id} and the test of its status.
CallbackFetch(w) ==
    \E answer \in CheckoutAnswers(req[w].cid) :
        /\ At(w, "callback", "fetch")
        /\ LET r == [req[w] EXCEPT !.fetched = TRUE, !.answer = answer]
           IN  IF answer = "exception" THEN Return(w, r, "500 internal")
               ELSE IF answer = "non200" THEN Return(w, r, "502 failed to verify")
               ELSE IF ~PaidEquivalent(provider[r.cid].status)
                    THEN Return(w, r, "400 payment status")
               ELSE Goto(w, [r EXCEPT !.ver = <<provider[r.cid]>>], "find")
        /\ KeepClock
        /\ UNCHANGED <<orders, provider, emails, paidWrites, audits>>

\* pending_order = db.orders.find_one({"order_id": checkout_ref})
CallbackFind(w) ==
    /\ At(w, "callback", "find")
    /\ LET order == FindOne(orders, req[w].ref)
       IN  IF order = <<>> THEN Return(w, req[w], "404 order not found")
           ELSE Goto(w, [req[w] EXCEPT !.args =
                           <<VerifiedArgs(order[1], req[w].ref, req[w].cid,
                                          req[w].ver[1])>>],
                     "persist_find")
    /\ KeepClock
    /\ UNCHANGED <<orders, provider, emails, paidWrites, audits>>

(***************************************************************************)
(* sumup_webhook                                                           *)
(***************************************************************************)
\* What a webhook payload says of the payment: nothing, or an amount, a
\* currency and a status of the sender's choosing.
Body(name) ==
    IF name = "forged" THEN Event("", 1, "USD", "PAID") ELSE NoEvent

\* A variant that goes on whatever the event type is.
WebhookStartAnyType(w) ==
    \E type \in {"checkout.completed", "payout.created"},
       cid \in CheckoutInputs, ref \in usedRefs \cup {""},
       body \in {Body(n) : n \in scope.bodies} :
        /\ CanStart(w)
        /\ LET r == [Started(w, "webhook", ref, cid) EXCEPT
                        !.event = [body EXCEPT !.type = type]]
               refused == cid = 0 \/ ref = ""
           IN  /\ IF refused THEN Return(w, r, "200 ignored")
                  ELSE Goto(w, r, "find")
               /\ Accepted(w, "webhook", ~refused)
        /\ Fixed
        /\ UNCHANGED <<orders, provider, usedRefs, emails, paidWrites>>

\* The event type and the two identifiers of the payload.
WebhookStart(w) ==
    \E type \in {"checkout.completed", "payout.created"},
       cid \in CheckoutInputs, ref \in usedRefs \cup {""},
       body \in {Body(n) : n \in scope.bodies} :
        /\ CanStart(w)
        /\ LET r == [Started(w, "webhook", ref, cid) EXCEPT
                        !.event = [body EXCEPT !.type = type]]
               refused == type # "checkout.completed" \/ cid = 0 \/ ref = ""
           IN  /\ IF refused THEN Return(w, r, "200 ignored")
                  ELSE Goto(w, r, "find")
               /\ Accepted(w, "webhook", ~refused)
        /\ Fixed
        /\ UNCHANGED <<orders, provider, usedRefs, emails, paidWrites>>

\* A variant without the already-paid check.
WebhookFindAlways(w) ==
    /\ At(w, "webhook", "find")
    /\ LET order == FindOne(orders, req[w].ref)
       IN  IF order = <<>> THEN Return(w, req[w], "404 order not found")
           ELSE Goto(w, [req[w] EXCEPT !.doc = order], "fetch")
    /\ KeepClock
    /\ UNCHANGED <<orders, provider, emails, paidWrites, audits>>

\* The order of the reference, and the already-paid check.
WebhookFind(w) ==
    /\ At(w, "webhook", "find")
    /\ LET order == FindOne(orders, req[w].ref)
       IN  IF order = <<>> THEN Return(w, req[w], "404 order not found")
           ELSE IF IsPaid(order[1]) THEN Return(w, req[w], "200 already_paid")
           ELSE Goto(w, [req[w] EXCEPT !.doc = order], "fetch")
    /\ KeepClock
    /\ UNCHANGED <<orders, provider, emails, paidWrites, audits>>

\* A variant that takes the amount and the currency from the webhook payload
\* when it carries them.
WebhookFetchTrusting(w) ==
    \E answer \in CheckoutAnswers(req[w].cid), token \in {"ok", "error"} :
        /\ At(w, "webhook", "fetch")
        /\ LET r == [req[w] EXCEPT !.fetched = TRUE, !.answer = answer]
               said == IF r.event.amount = 0 THEN provider[r.cid]
                       ELSE [provider[r.cid] EXCEPT !.amount = r.event.amount,
                                                    !.currency = r.event.currency]
           IN  IF ~sumup_config \/ token = "error"
               THEN Return(w, [req[w] EXCEPT !.answer = "no token"], "500 internal")
               ELSE IF answer = "exception" THEN Return(w, r, "500 internal")
               ELSE IF answer = "non200" THEN Return(w, r, "502 verification failed")
               ELSE IF ~PaidEquivalent(provider[r.cid].status)
                    THEN Return(w, r, "200 ignored, with the status")
               ELSE Goto(w, [r EXCEPT !.ver = <<provider[r.cid]>>,
                                      !.args = <<VerifiedArgs(r.doc[1], r.ref, r.cid,
                                                              said)>>],
                         "persist_find")
        /\ KeepClock
        /\ UNCHANGED <<orders, provider, emails, paidWrites, audits>>

\* get_sumup_access_token(), GET /v0.1/checkouts/{id}, the test of the status.
WebhookFetch(w) ==
    \E answer \in CheckoutAnswers(req[w].cid), token \in {"ok", "error"} :
        /\ At(w, "webhook", "fetch")
        /\ LET r == [req[w] EXCEPT !.fetched = TRUE, !.answer = answer]
           IN  IF ~sumup_config \/ token = "error"
               THEN Return(w, [req[w] EXCEPT !.answer = "no token"], "500 internal")
               ELSE IF answer = "exception" THEN Return(w, r, "500 internal")
               ELSE IF answer = "non200" THEN Return(w, r, "502 verification failed")
               ELSE IF ~PaidEquivalent(provider[r.cid].status)
                    THEN Return(w, r, "200 ignored, with the status")
               ELSE Goto(w, [r EXCEPT !.ver = <<provider[r.cid]>>,
                                      !.args = <<VerifiedArgs(r.doc[1], r.ref, r.cid,
                                                              provider[r.cid])>>],
                         "persist_find")
        /\ KeepClock
        /\ UNCHANGED <<orders, provider, emails, paidWrites, audits>>

(***************************************************************************)
(* create_paid_order                                                       *)
(***************************************************************************)
\* The entry kept for an item that normalize_order_item returns None for.
FallbackItem(entry) ==
    LET q == safe_positive_int(entry.quantity, 1)
    IN  [product_id |-> FirstNonEmpty(<<entry.product_id, entry.productId, entry.id>>),
         quantity |-> IF q = 0 THEN 1 ELSE q,
         name |-> IF entry.name = "" THEN "Item" ELSE entry.name,
         price |-> Round2(safe_float(entry.price, 0)),
         variation_id |-> entry.variation_id]

RECURSIVE RecordedItems(_)
RecordedItems(raw) ==
    IF raw = <<>> THEN <<>>
    ELSE (IF normalize_order_item(Head(raw)) # <<>>
          THEN normalize_order_item(Head(raw))
          ELSE <<FallbackItem(Head(raw))>>) \o RecordedItems(Tail(raw))

\* sum(price * quantity) over the recorded items, rounded: cents.
RECURSIVE CalculatedTotal(_)
CalculatedTotal(items) ==
    IF items = <<>> THEN 0
    ELSE Head(items).price * Max(1, Head(items).quantity)
         + CalculatedTotal(Tail(items))

Abs(x) == IF x >= 0 THEN x ELSE -x

\* math.isclose(a, b, rel_tol=0.01, abs_tol=0.05), on cents.
IsClose(a, b) ==
    \/ Abs(a - b) * 100 <= Max(Abs(a), Abs(b))
    \/ Abs(a - b) <= 5

\* total_value of create_paid_order from the calculated total and payload["total"].
TotalValue(calculated, total) ==
    LET provided == IF total.t = "num" THEN Round2(total.v) ELSE calculated
    IN  IF calculated # 0 /\ provided # 0 /\ ~IsClose(calculated, provided)
        THEN calculated
        ELSE IF calculated # 0 THEN calculated ELSE provided

\* Direct confirmations: a plain one; one that names a provider checkout and
\* the provider's payment method; one whose items sum to zero with a total
\* of its own; one without items.
DirectPayload(name) ==
    CASE name = "plain" ->
           [items |-> CartA, total |-> PyNone, checkoutId |-> 0, paymentMethod |-> ""]
      [] name = "checkout" ->
           [items |-> CartA, total |-> PyNone, checkoutId |-> 1,
            paymentMethod |-> "SUMUP_CARD"]
      [] name = "zero" ->
           [items |-> CartNoProduct, total |-> PyNum(99000), checkoutId |-> 0,
            paymentMethod |-> ""]
      [] OTHER ->
           [items |-> <<>>, total |-> PyNone, checkoutId |-> 0, paymentMethod |-> ""]

DirectPayloads == {DirectPayload(n) : n \in scope.direct}

\* The payload of a direct confirmation, up to the lookup of the order.
CreatePaidOrderStart(w) ==
    \E payload \in DirectPayloads, orderId \in usedRefs \cup {""},
       jwt \in Identities, pemail \in PayloadEmails :
        /\ CanStart(w)
        /\ orderId = "" => OrderIds \ usedRefs # {}
        /\ LET ref == IF orderId # "" THEN orderId ELSE FreshRef
               items == RecordedItems(payload.items)
               r == Started(w, "create_paid_order", ref, payload.checkoutId)
               a == [items |-> items,
                     total |-> TotalValue(CalculatedTotal(items), payload.total),
                     currency |-> "EUR", order_id |-> ref,
                     checkout |-> payload.checkoutId,
                     email |-> normalize_email(IF pemail # "" THEN pemail ELSE jwt),
                     customer_name |-> "", user |-> jwt, user_id |-> UserIdOf(jwt),
                     method |-> IF payload.paymentMethod = "" THEN "EXTERNAL"
                                ELSE payload.paymentMethod,
                     shipping |-> ""]
               refused == payload.items = <<>>
           IN  /\ IF refused THEN Return(w, r, "400 no items")
                  ELSE Goto(w, [r EXCEPT !.args = <<a>>], "find")
               /\ Accepted(w, "create_paid_order", ~refused)
               /\ usedRefs' = IF refused THEN usedRefs ELSE usedRefs \cup {ref}
        /\ Fixed
        /\ UNCHANGED <<orders, provider, emails, paidWrites>>

\* A variant without the test of the stored payment status.
CreatePaidOrderFindAlways(w) ==
    /\ At(w, "create_paid_order", "find")
    /\ Goto(w, req[w], "persist_find")
    /\ KeepClock
    /\ UNCHANGED <<orders, provider, emails, paidWrites, audits>>

\* existing_order = db.orders.find_one({"order_id": order_identifier})
CreatePaidOrderFind(w) ==
    /\ At(w, "create_paid_order", "find")
    /\ LET order == FindOne(orders, req[w].ref)
       IN  IF order # <<>> /\ IsPaid(order[1])
           THEN Return(w, req[w], "200 already recorded")
           ELSE Goto(w, req[w], "persist_find")
    /\ KeepClock
    /\ UNCHANGED <<orders, provider, emails, paidWrites, audits>>

(***************************************************************************)
(* The system.                                                             *)
(***************************************************************************)
Next ==
    \/ \E w \in Workers : CreateCheckoutStart(w)
    \/ \E w \in Workers : CreateCheckoutInsert(w)
    \/ \E w \in Workers : CreateCheckoutPost(w)
    \/ \E w \in Workers : CreateCheckoutUpdate(w)
    \/ \E w \in Workers : CallbackStart(w)
    \/ \E w \in Workers : CallbackLookup(w)
    \/ \E w \in Workers : CallbackFetch(w)
    \/ \E w \in Workers : CallbackFind(w)
    \/ \E w \in Workers : WebhookStart(w)
    \/ \E w \in Workers : WebhookFind(w)
    \/ \E w \in Workers : WebhookFetch(w)
    \/ \E w \in Workers : CreatePaidOrderStart(w)
    \/ \E w \in Workers : CreatePaidOrderFind(w)
    \/ \E w \in Workers : PersistFind(w)
    \/ \E w \in Workers : PersistWrite(w)
    \/ \E w \in Workers : PersistEmail(w)
    \/ \E w \in Workers : ClearCart(w)
    \/ \E w \in Workers : Respond(w)
    \/ ProviderSettles

Spec == Init /\ [][Next]_vars

(***************************************************************************)
(* get_sumup_access_token and _sumup_token_cache, with the clock.  Each    *)
(* read and each assignment of the cache is a step of its own.             *)
(***************************************************************************)
\* Calls of get_sumup_access_token in one run.
MaxCalls == 3

\* The last instant of the clock, in steps of Margin.
MaxClock == 3

\* timedelta(seconds=30): a cached token this close to its expiry is renewed.
Margin == 30

\* data.get("expires_in", 3600)
DefaultLifetime == 3600

Instants == {Margin * k : k \in 0..MaxClock}

\* expires_in in the answer of POST /token: absent, or a number of seconds.
ExpiresInAnswers == {PyNone, PyNum(2 * Margin), PyNum(3 * Margin)}

expires_in(data) == IF data.t = "num" THEN data.v ELSE DefaultLifetime

\* A variant that takes a cached token up to the instant of its expiry.
CacheValidNoMargin(cache, now) ==
    /\ cache.access_token # 0
    /\ cache.expires_at.t = "num"
    /\ cache.expires_at.v > now

\* access_token and expires_at and expires_at > now + timedelta(seconds=30)
CacheValid(cache, now) ==
    /\ cache.access_token # 0
    /\ cache.expires_at.t = "num"
    /\ cache.expires_at.v > now + Margin

TokenInit ==
    /\ scope \in {s \in Scopes : s.name = "race"}
    /\ orders = <<>>
    /\ provider = <<>>
    /\ req = [w \in Workers |-> Idle]
    /\ nOps = 0
    /\ usedRefs = {}
    /\ sumup_config \in BOOLEAN
    /\ emails = [r \in OrderIds |-> 0]
    /\ paidWrites = [r \in OrderIds |-> 0]
    /\ overlap = FALSE
    /\ started = [k \in Kinds |-> 0]
    /\ audits = [r \in OrderIds |-> 0]
    /\ clock = 0
    /\ sumup_token_cache = EmptyCache
    /\ auth = [w \in Workers |-> AuthIdle]
    /\ issued = <<>>
    /\ nCalls = 0
    /\ raw_items = <<>>
    /\ raw_total = PyNone
    /\ normalized_items = <<>>
    /\ calculated_total = PyNone

KeepStore ==
    UNCHANGED StoreVars /\ UNCHANGED sumup_config /\ UNCHANGED CartVars

\* Time passes.
Tick ==
    /\ clock + Margin \in Instants
    /\ clock' = clock + Margin
    /\ KeepStore
    /\ UNCHANGED <<sumup_token_cache, auth, issued, nCalls>>

\* The configuration check, now = datetime.utcnow() and the test of the cache.
TokenCall(w) ==
    /\ auth[w].pc = "idle" /\ nCalls < MaxCalls
    /\ nCalls' = nCalls + 1
    /\ auth' = [auth EXCEPT ![w] =
                  IF ~sumup_config THEN [AuthIdle EXCEPT !.pc = "raised"]
                  ELSE [AuthIdle EXCEPT
                          !.now = clock,
                          !.pc = IF CacheValid(sumup_token_cache, clock)
                                 THEN "return_cached" ELSE "post"]]
    /\ KeepStore
    /\ UNCHANGED <<clock, sumup_token_cache, issued>>

\* return _sumup_token_cache["access_token"]
TokenReturnCached(w) ==
    /\ auth[w].pc = "return_cached"
    /\ auth' = [auth EXCEPT ![w].pc = "returned", ![w].hit = TRUE,
                            ![w].result = sumup_token_cache.access_token]
    /\ KeepStore
    /\ UNCHANGED <<clock, sumup_token_cache, issued, nCalls>>

\* POST /token: the provider issues a token that lives expires_in seconds
\* from now on, or the request fails.
TokenPost(w) ==
    \E answer \in {"ok", "error"}, data \in ExpiresInAnswers :
        /\ auth[w].pc = "post"
        /\ IF answer = "error"
           THEN /\ auth' = [auth EXCEPT ![w].pc = "raised", ![w].posted = TRUE]
                /\ UNCHANGED issued
           ELSE /\ issued' = Append(issued, clock + expires_in(data))
                /\ auth' = [auth EXCEPT ![w].pc = "store_access_token",
                                        ![w].posted = TRUE,
                                        ![w].access_token = Len(issued) + 1,
                                        ![w].expires_in = expires_in(data)]
        /\ KeepStore
        /\ UNCHANGED <<clock, sumup_token_cache, nCalls>>

\* _sumup_token_cache["access_token"] = access_token
TokenStoreAccessToken(w) ==
    /\ auth[w].pc = "store_access_token"
    /\ sumup_token_cache' =
          [sumup_token_cache EXCEPT !.access_token = auth[w].access_token]
    /\ auth' = [auth EXCEPT ![w].pc = "store_expires_at"]
    /\ KeepStore
    /\ UNCHANGED <<clock, issued, nCalls>>

\* _sumup_token_cache["expires_at"] = now + timedelta(seconds=expires_in)
TokenStoreExpiresAt(w) ==
    /\ auth[w].pc = "store_expires_at"
    /\ sumup_token_cache' =
          [sumup_token_cache EXCEPT
              !.expires_at = PyNum(auth[w].now + auth[w].expires_in)]
    /\ auth' = [auth EXCEPT ![w].pc = "returned",
                            ![w].result = auth[w].access_token]
    /\ KeepStore
    /\ UNCHANGED <<clock, issued, nCalls>>

\* The caller has the token, or the ValueError.
TokenDone(w) ==
    /\ auth[w].pc \in {"returned", "raised"}
    /\ auth' = [auth EXCEPT ![w] = AuthIdle]
    /\ KeepStore
    /\ UNCHANGED <<clock, sumup_token_cache, issued, nCalls>>

TokenNext ==
    \/ Tick
    \/ \E w \in Workers : TokenCall(w)
    \/ \E w \in Workers : TokenReturnCached(w)
    \/ \E w \in Workers : TokenPost(w)
    \/ \E w \in Workers : TokenStoreAccessToken(w)
    \/ \E w \in Workers : TokenStoreExpiresAt(w)
    \/ \E w \in Workers : TokenDone(w)

TokenSpec == TokenInit /\ [][TokenNext]_vars

(***************************************************************************)
(* The cart of a begin-checkout request through normalize_order_item and   *)
(* calculate_order_totals, over every cart of a few entries.               *)
(***************************************************************************)
\* Entries of a submitted cart.
MaxLen == 2

\* payload["price"]: missing, not a number, -10.00, 10.004, 2.50.
Prices == {PyNone, PyText, PyNum(-10000), PyNum(10004), PyNum(2500)}

\* payload["quantity"]: missing, not a number, 0, -1, 2.5.
Quantities == {PyNone, PyText, PyNum(0), PyNum(-1000), PyNum(2500)}

ItemInputs ==
    {RawItem(pid, "", qty, price) :
        pid \in {"", "P1"}, qty \in Quantities, price \in Prices}

CartInputs == UNION {[1..n -> ItemInputs] : n \in 0..MaxLen}

\* "No valid items in checkout.": no subtotal is computed.
NoValidItems == [t |-> "no valid items", v |-> 0]

CartInit ==
    /\ scope \in {s \in Scopes : s.name = "race"}
    /\ orders = <<>>
    /\ provider = <<>>
    /\ req = [w \in Workers |-> Idle]
    /\ nOps = 0
    /\ usedRefs = {}
    /\ sumup_config = TRUE
    /\ emails = [r \in OrderIds |-> 0]
    /\ paidWrites = [r \in OrderIds |-> 0]
    /\ overlap = FALSE
    /\ started = [k \in Kinds |-> 0]
    /\ audits = [r \in OrderIds |-> 0]
    /\ clock = 0
    /\ sumup_token_cache = EmptyCache
    /\ auth = [w \in Workers |-> AuthIdle]
    /\ issued = <<>>
    /\ nCalls = 0
    /\ raw_items \in CartInputs
    /\ raw_total \in {PyNone, PyNum(99000)}
    /\ normalized_items = <<>>
    /\ calculated_total = PyNone

\* The loop over payload["items"], the test of what is left, and
\* calculate_order_totals(normalized_items)["subtotal"].
NormalizeCart ==
    /\ calculated_total = PyNone
    /\ normalized_items' = NormalizeItems(raw_items)
    /\ calculated_total' =
          IF NormalizeItems(raw_items) = <<>> THEN NoValidItems
          ELSE PyNum(calculate_order_totals(NormalizeItems(raw_items)))
    /\ UNCHANGED <<raw_items, raw_total, sumup_config>>
    /\ UNCHANGED StoreVars /\ UNCHANGED TokenVars

CartNext == NormalizeCart

CartSpec == CartInit /\ [][CartNext]_vars

(***************************************************************************)
(* The status request when the provider may never answer: requests.get is  *)
(* called without a timeout, so the call does not return.                  *)
(***************************************************************************)
\* requests.get(.../v0.1/checkouts/{checkout_id}) of the callback blocks.
CallbackFetchUnanswered(w) ==
    /\ At(w, "callback", "fetch")
    /\ Goto(w, [req[w] EXCEPT !.fetched = TRUE, !.answer = "none"], "waiting")
    /\ KeepClock
    /\ UNCHANGED <<orders, provider, emails, paidWrites, audits>>

\* requests.get(.../v0.1/checkouts/{checkout_id}) of the webhook blocks.
WebhookFetchUnanswered(w) ==
    /\ At(w, "webhook", "fetch") /\ sumup_config
    /\ Goto(w, [req[w] EXCEPT !.fetched = TRUE, !.answer = "none"], "waiting")
    /\ KeepClock
    /\ UNCHANGED <<orders, provider, emails, paidWrites, audits>>

\* A step of the handler that worker w runs.
Running(w) ==
    \/ CreateCheckoutInsert(w) \/ CreateCheckoutPost(w) \/ CreateCheckoutUpdate(w)
    \/ CallbackLookup(w) \/ CallbackFetch(w) \/ CallbackFind(w)
    \/ WebhookFind(w) \/ WebhookFetch(w)
    \/ CreatePaidOrderFind(w)
    \/ PersistFind(w) \/ PersistWrite(w) \/ PersistEmail(w) \/ ClearCart(w)
    \/ Respond(w)

WaitInit == Init /\ scope.name = "purchasers"

WaitNext ==
    \/ Next
    \/ \E w \in Workers : CallbackFetchUnanswered(w)
    \/ \E w \in Workers : WebhookFetchUnanswered(w)

\* A request thread that can take a step takes one.
WaitSpec ==
    WaitInit /\ [][WaitNext]_vars /\ \A w \in Workers : WF_vars(Running(w))

TypeOK ==
    /\ nOps \in 0..MaxOps
    /\ \A i \in 1..Len(orders) : orders[i].payment_status \in {"pending", "paid"}
    /\ \A k \in Kinds : started[k] \in 0..MaxOps

(***************************************************************************)
(* Properties.                                                             *)
(***************************************************************************)
Responding(w, kinds) == req[w].pc = "respond" /\ req[w].kind \in kinds

\* The provider's checkouts created for an order reference.
CheckoutsOf(ref) == {c \in 1..Len(provider) : provider[c].checkout_reference = ref}

\* C1: for every order reference, the ledger write that makes the order paid
\* takes effect at most once, whatever handlers run and however they interleave.
C1_PaidWrittenOnce == \A r \in OrderIds : paidWrites[r] <= 1

\* C2: for each order reference the ledger holds at most one record in state
\* paid.
C2_OnePaidRecord == \A r \in OrderIds : Cardinality(PaidRecords(r)) <= 1

\* C3: a pending order becomes paid only by the write of a callback or a
\* webhook whose status fetch returned a paid-equivalent status.
C3_PaidOnlyWhenVerified ==
    [][\A i \in 1..Len(orders) : \A j \in 1..Len(orders') :
          ( /\ orders[i].payment_status = "pending"
            /\ orders'[j]._id = orders[i]._id
            /\ orders'[j].payment_status = "paid" )
          => \E w \in Workers :
                /\ req[w].pc = "persist_write" /\ req'[w].pc = "persist_email"
                /\ req[w].kind \in {"callback", "webhook"}
                /\ req[w].fetched
                /\ req[w].ver # <<>> /\ PaidEquivalent(req[w].ver[1].status)]_vars

\* C4: every paid order that has a provider checkout carries the amount, the
\* currency and the payment method of the provider's checkout that it names.
C4_VerifiedPaymentFields ==
    \A i \in 1..Len(orders) :
        (orders[i].payment_status = "paid" /\ CheckoutsOf(orders[i].order_id) # {})
        => /\ orders[i].checkout_id \in CheckoutsOf(orders[i].order_id)
           /\ orders[i].total = provider[orders[i].checkout_id].amount
           /\ orders[i].currency = provider[orders[i].checkout_id].currency
           /\ orders[i].payment_method = "SUMUP_CARD"

OnlyCheckoutsAndWebhooks ==
    started["callback"] = 0 /\ started["create_paid_order"] = 0

\* C5: when webhooks for the same pending order race, the receipt email is
\* attempted once in total.
C5_RaceOneReceipt ==
    OnlyCheckoutsAndWebhooks => \A r \in OrderIds : emails[r] <= 1

\* The double delivery of C6: one begin-checkout, then webhooks for its
\* checkout, one after the other; this one was answered with a success.
DeliveredAfterCheckout(w) ==
    /\ Responding(w, {"webhook"})
    /\ ~overlap /\ OnlyCheckoutsAndWebhooks /\ started["create_checkout"] = 1
    /\ req[w].cid \in CheckoutsOf(req[w].ref)
    /\ req[w].resp \in {"200 ok", "200 already_paid"}

OnePaidRecordWith(ref, cid) ==
    /\ Cardinality(PaidRecords(ref)) = 1
    /\ \A i \in PaidRecords(ref) :
          /\ orders[i].total = provider[cid].amount
          /\ orders[i].currency = provider[cid].currency

ShortCircuit(w) ==
    req[w].paidAtStart =>
        req[w].resp = "200 already_paid" /\ ~req[w].fetched /\ ~req[w].wrote

\* C6 as stated: after the deliveries there is one paid record with the
\* provider's amount and one receipt email attempt, and the second delivery
\* is acknowledged without a status fetch and without a ledger write.
C6_DoubleDeliveryOneReceipt ==
    \A w \in Workers :
        DeliveredAfterCheckout(w)
        => /\ OnePaidRecordWith(req[w].ref, req[w].cid)
           /\ emails[req[w].ref] = 1
           /\ ShortCircuit(w)

\* C6, amended: the same, with one receipt email attempt when the order
\* carries a customer email and none when it carries no email.
C6_DoubleDelivery ==
    \A w \in Workers :
        DeliveredAfterCheckout(w)
        => /\ OnePaidRecordWith(req[w].ref, req[w].cid)
           /\ \A i \in PaidRecords(req[w].ref) :
                 emails[req[w].ref] = IF orders[i].email = "" THEN 0 ELSE 1
           /\ ShortCircuit(w)

\* The second of two deliveries for an order of 25.00 EUR was acknowledged.
C6_Witness ==
    \E w \in Workers :
        /\ DeliveredAfterCheckout(w)
        /\ started["webhook"] = 2 /\ req[w].paidAtStart
        /\ provider[req[w].cid].amount = 2500
        /\ emails[req[w].ref] = 1

\* C7: a callback, webhook or direct confirmation for an order that is
\* already paid makes no provider status fetch.
C7_NoFetchWhenPaid ==
    \A w \in Workers :
        (Responding(w, {"callback", "webhook", "create_paid_order"})
         /\ req[w].paidAtStart) => ~req[w].fetched

\* C8: over requests that do not overlap, the receipt email of an order is
\* attempted once, by the request that makes it paid, and never again.
C8_OneReceiptPerOrder == ~overlap => \A r \in OrderIds : emails[r] <= 1

\* The stored payment fields are the ones this application writes.
SameApplication(o, a) ==
    /\ o.payment_status = "paid"
    /\ o.checkout_id = a.checkout
    /\ o.total = a.total
    /\ o.currency = a.currency
    /\ o.payment_method = a.method

SecondApplication(w) ==
    /\ ~overlap
    /\ req[w].kind \in {"callback", "webhook"}
    /\ req[w].doc # <<>>
    /\ SameApplication(req[w].doc[1], req[w].args[1])

\* C9: the paid transition applied again to a paid order, with the same
\* verified status, changes no stored field of any record, and the order
\* reference has one paid record.
C9_IdempotentTransition ==
    [][\A w \in Workers :
          (SecondApplication(w)
           /\ req[w].pc = "persist_write" /\ req'[w].pc = "persist_email")
          => /\ orders' = orders
             /\ Cardinality(PaidRecords(req[w].ref)) = 1]_vars

\* A callback has applied the transition to the order that a callback or a
\* webhook made paid before it.
C9_Witness ==
    \E w \in Workers :
        /\ req[w].pc = "persist_email" /\ req[w].wrote
        /\ SecondApplication(w)
        /\ started["create_paid_order"] = 0
        /\ FindOne(orders, req[w].ref) = req[w].doc

\* Answers after which the provider was not asked, did not answer, or did
\* not report the checkout paid.
NotVerified ==
    {"400 missing checkout reference", "400 payment failed", "500 internal",
     "502 failed to verify", "502 verification failed", "400 payment status",
     "200 ignored", "200 ignored, with the status"}

\* C10: a callback or webhook delivered for an order whose checkout the
\* provider reports paid, with the provider reachable, leaves the order
\* recorded as paid.
C10_VerifiedPaymentRecorded ==
    \A w \in Workers :
        ( /\ Responding(w, {"callback", "webhook"}) /\ ~overlap
          /\ req[w].resp \notin NotVerified
          /\ \E c \in CheckoutsOf(req[w].ref) :
                PaidEquivalent(provider[c].status) /\ req[w].cid \in {0, c} )
        => PaidRecords(req[w].ref) # {}

\* The record that the write of a request in persist_paid_order touches.
WrittenId(w) == IF req[w].doc # <<>> THEN req[w].doc[1]._id ELSE req[w].seq

WritesPaid(w, kinds) ==
    /\ req[w].kind \in kinds
    /\ req[w].pc = "persist_write" /\ req'[w].pc = "persist_email"

\* C11: what a webhook payload says of the amount, the currency and the
\* status never reaches the ledger: the record a webhook writes carries the
\* amount and the currency of the provider's answer, it is written only when
\* the provider's status is paid-equivalent, and no record ever carries the
\* amount or the currency of a payload.
C11_UntrustedWebhookBody ==
    [][/\ \A w \in Workers :
            WritesPaid(w, {"webhook"})
            => /\ PaidEquivalent(provider[req[w].cid].status)
               /\ \A j \in 1..Len(orders') :
                     orders'[j]._id = WrittenId(w)
                     => /\ orders'[j].total = provider[req[w].cid].amount
                        /\ orders'[j].currency = provider[req[w].cid].currency
       /\ \A j \in 1..Len(orders') :
            /\ orders'[j].total # Body("forged").amount
            /\ orders'[j].currency # Body("forged").currency]_vars

\* A webhook whose payload names another amount and currency than the
\* provider's has written the order.
C11_Witness ==
    \E w \in Workers :
        /\ req[w].kind = "webhook" /\ req[w].pc = "persist_email"
        /\ req[w].event.amount = Body("forged").amount
        /\ req[w].event.amount # provider[req[w].cid].amount
        /\ \E i \in PaidRecords(req[w].ref) :
              orders[i].total = provider[req[w].cid].amount

\* The step of a request leaves the ledger, the provider and the effects alone.
NoEffect ==
    /\ orders' = orders /\ provider' = provider
    /\ emails' = emails /\ paidWrites' = paidWrites /\ audits' = audits

\* C12: a webhook whose event type is not checkout.completed is answered
\* "ignored" with status 200 at once, whatever its payload and whatever the
\* ledger holds: no ledger write, no provider call, no effect.
C12_UnknownEventIgnored ==
    [][\A w \in Workers :
          ( /\ req[w].pc = "idle" /\ req'[w].kind = "webhook"
            /\ req'[w].event.type # "checkout.completed" )
          => /\ req'[w].pc = "respond" /\ req'[w].resp = "200 ignored"
             /\ ~req'[w].fetched /\ ~req'[w].wrote
             /\ NoEffect]_vars

\* A payout.created event names a pending order and its checkout, which the
\* provider reports paid.
C12_Witness ==
    \E w \in Workers :
        /\ Responding(w, {"webhook"}) /\ req[w].event.type = "payout.created"
        /\ req[w].cid \in CheckoutsOf(req[w].ref)
        /\ PaidEquivalent(provider[req[w].cid].status)
        /\ FindOne(orders, req[w].ref) # <<>>
        /\ ~IsPaid(FindOne(orders, req[w].ref)[1])

\* Answers of begin-checkout when the provider's session was not created.
SessionNotCreated == {"4xx session not created", "500 internal"}

\* C13: when begin-checkout answers that the provider's session was not
\* created, the pending order that this request inserted is no longer in the
\* ledger.
C13_FailedCheckoutUndone ==
    \A w \in Workers :
        ( /\ Responding(w, {"create_checkout"})
          /\ req[w].resp \in SessionNotCreated )
        => \A i \in 1..Len(orders) :
              ~(orders[i]._id = req[w].seq /\ orders[i].payment_status = "pending")

\* C14: over begin-checkouts, callbacks and webhooks, no two records of the
\* ledger share an order reference, and no order reference has two provider
\* checkouts.
C14_UniqueOrderReferences ==
    started["create_paid_order"] = 0
    => \A r \in OrderIds :
          /\ Cardinality(Matching(orders, r)) <= 1
          /\ Cardinality(CheckoutsOf(r)) <= 1

\* C15: a record in state paid keeps its lifecycle state, its amount, its
\* currency and its payment method through every step of every request,
\* already when the requests come one after the other.
C15_PaidIsFrozen ==
    [][\A i \in 1..Len(orders) : \A j \in 1..Len(orders') :
          ( /\ ~overlap
            /\ orders[i].payment_status = "paid" /\ orders'[j]._id = orders[i]._id )
          => /\ orders'[j].payment_status = "paid"
             /\ orders'[j].total = orders[i].total
             /\ orders'[j].currency = orders[i].currency
             /\ orders'[j].payment_method = orders[i].payment_method]_vars

\* The provider did not answer this request's authentication or its status
\* fetch with a success.
FailedVerification == {"no token", "exception", "non200"}

NonSuccess == {"500 internal", "502 failed to verify", "502 verification failed"}

\* C16: a callback or a webhook whose authentication or status fetch failed
\* answers with a 5xx, has written nothing to the ledger, and the step that
\* answers changes neither the ledger nor the effects.
C16_FailedVerificationNoWrite ==
    [][\A w \in Workers :
          ( /\ req[w].pc # "respond" /\ req'[w].pc = "respond"
            /\ req'[w].kind \in {"callback", "webhook"}
            /\ req'[w].answer \in FailedVerification )
          => /\ req'[w].resp \in NonSuccess
             /\ ~req'[w].wrote
             /\ NoEffect]_vars

\* The status fetch for a pending order whose checkout the provider holds as
\* paid has failed.
C16_Witness ==
    \E w \in Workers :
        /\ Responding(w, {"callback", "webhook"})
        /\ req[w].answer \in {"exception", "non200"}
        /\ req[w].cid \in CheckoutsOf(req[w].ref)
        /\ PaidEquivalent(provider[req[w].cid].status)
        /\ FindOne(orders, req[w].ref) # <<>>
        /\ ~IsPaid(FindOne(orders, req[w].ref)[1])

\* What a callback and a webhook answer to a verified status that is not a
\* payment: the callback a 400 with the status, the webhook "ignored" with
\* the status.
NotPaidResults == {"400 payment status", "200 ignored, with the status"}

\* C17: when the provider answers the status fetch of a callback or a
\* webhook with a status that is not paid-equivalent, the request ends there
\* with a result that is not a success, it has written nothing, and the
\* ledger and the effects are as they were.
C17_NotPaidLeavesPending ==
    [][\A w \in Workers :
          ( /\ req[w].kind \in {"callback", "webhook"} /\ req[w].pc = "fetch"
            /\ req'[w].answer = "200"
            /\ ~PaidEquivalent(provider[req[w].cid].status) )
          => /\ req'[w].pc = "respond" /\ req'[w].resp \in NotPaidResults
             /\ ~req'[w].wrote
             /\ NoEffect]_vars

\* The provider has answered FAILED for the checkout of a pending order.
C17_Witness ==
    \E w \in Workers :
        /\ Responding(w, {"callback", "webhook"})
        /\ req[w].resp \in NotPaidResults
        /\ req[w].cid \in CheckoutsOf(req[w].ref)
        /\ provider[req[w].cid].status = "FAILED"
        /\ FindOne(orders, req[w].ref) # <<>>
        /\ FindOne(orders, req[w].ref)[1].payment_status = "pending"

\* C18: a callback, a webhook or a direct confirmation that has written the
\* order as paid reports the payment as successful, whatever became of the
\* receipt email and of the cart clearing.
C18_EffectFailureStillSuccess ==
    \A w \in Workers :
        ( /\ Responding(w, {"callback", "webhook", "create_paid_order"})
          /\ req[w].wrote )
        => req[w].resp = Success(req[w].kind)

\* C19: a callback or a webhook makes a pending order paid only when the
\* amount and the currency of the provider's verified checkout equal the
\* total and the currency stored on the order at begin-checkout.
C19_AmountCheckedAtReconciliation ==
    [][\A w \in Workers : \A i \in 1..Len(orders) :
          ( /\ WritesPaid(w, {"callback", "webhook"})
            /\ orders[i]._id = WrittenId(w)
            /\ orders[i].payment_status = "pending"
            /\ \E j \in 1..Len(orders') :
                  orders'[j]._id = orders[i]._id /\ orders'[j].payment_status = "paid" )
          => /\ req[w].ver[1].amount = orders[i].total
             /\ req[w].ver[1].currency = orders[i].currency]_vars

CheckoutArrives(w) == req[w].pc = "idle" /\ req'[w].kind = "create_checkout"

\* C21: a begin-checkout none of whose entries survives the normalizer, or
\* whose cart is empty, is refused at once: no order record, no provider
\* checkout.
C21_NoItemsRejected ==
    [][\A w \in Workers :
          (CheckoutArrives(w) /\ NormalizeItems(req'[w].cart) = <<>>)
          => /\ req'[w].pc = "respond"
             /\ req'[w].resp \in {"400 no valid items", "500 configuration"}
             /\ NoEffect]_vars

\* A cart whose one entry names no product was refused, and so was an empty
\* cart: the witness is the first of the two.
C21_Witness ==
    \E w \in Workers :
        /\ Responding(w, {"create_checkout"})
        /\ req[w].cart = CartNoProduct
        /\ req[w].resp = "400 no valid items"

\* C23: begin-checkout without the provider credentials answers with the
\* configuration error, before get_sumup_access_token() is called and with
\* no order record written.
C23_MissingCredentialsReported ==
    [][\A w \in Workers :
          (CheckoutArrives(w) /\ ~sumup_config)
          => /\ req'[w].pc = "respond" /\ req'[w].resp = "500 configuration"
             /\ req'[w].token = ""
             /\ NoEffect]_vars

\* A begin-checkout with a valid cart was refused for the configuration.
C23_Witness ==
    \E w \in Workers :
        /\ Responding(w, {"create_checkout"}) /\ ~sumup_config
        /\ req[w].cart = CartA
        /\ req[w].resp = "500 configuration"

\* The record that a begin-checkout request inserted.
OwnOrder(os, w) == {i \in 1..Len(os) : os[i]._id = req[w].seq}

\* C22: with requests one after the other, when begin-checkout sends the
\* session request its own pending order is in the ledger, the session
\* carries its order reference and the subtotal computed from its cart, and
\* when it stores the checkout identifier it stores it on its own order,
\* which is pending.
C22_CheckoutOrdering ==
    [][\A w \in Workers :
          /\ ( /\ ~overlap /\ req[w].kind = "create_checkout"
               /\ req[w].pc = "post" /\ req'[w].pc = "update" )
             => /\ \E i \in OwnOrder(orders, w) :
                      /\ orders[i].payment_status = "pending"
                      /\ orders[i].order_id = req[w].ref
                /\ provider'[req'[w].cid].checkout_reference = req[w].ref
                /\ provider'[req'[w].cid].amount =
                      calculate_order_totals(NormalizeItems(req[w].cart))
          /\ ( /\ ~overlap /\ req[w].kind = "create_checkout"
               /\ req[w].pc = "update" /\ req'[w].pc = "respond" )
             => \E i \in OwnOrder(orders', w) :
                   /\ orders'[i].checkout_id = req[w].cid
                   /\ orders'[i].payment_status = "pending"]_vars

KnownCheckout(cid) == cid \in 1..Len(provider)

\* The responses of the callback, the webhook and the direct confirmation,
\* by the outcome under which the handlers give them.
Told(resp) ==
    IF resp \in {"200 payment successful", "200 ok", "200 already_paid",
                 "200 order saved", "200 already recorded"} THEN "success"
    ELSE IF resp \in {"404 order not found", "400 unknown checkout"}
         THEN "not found"
    ELSE IF resp \in {"502 failed to verify", "502 verification failed",
                      "500 internal"} THEN "unavailable"
    ELSE IF resp \in {"400 payment status", "200 ignored, with the status"}
         THEN "rejected"
    ELSE "other"

\* What happened to the request that worker w is answering.
Outcome(w) ==
    IF req[w].answer \in {"no token", "exception"} THEN "unavailable"
    ELSE IF req[w].answer = "non200"
         THEN IF KnownCheckout(req[w].cid) THEN "unavailable" ELSE "not found"
    ELSE IF req[w].resp \in {"404 order not found", "400 unknown checkout"}
         THEN "not found"
    ELSE IF req[w].answer = "200" /\ ~PaidEquivalent(provider[req[w].cid].status)
         THEN "rejected"
    ELSE IF Told(req[w].resp) = "success" THEN "success"
    ELSE "other"

Reconciliations == {"callback", "webhook", "create_paid_order"}

\* C24: the response of a callback, a webhook or a direct confirmation tells
\* which of the four outcomes happened: success, order or checkout not found,
\* provider unavailable, payment rejected.
C24_OutcomesDistinguished ==
    \A w \in Workers :
        (Responding(w, Reconciliations) /\ Outcome(w) # "other")
        => Told(req[w].resp) = Outcome(w)

\* The same, leaving out the requests whose checkout the provider never
\* gave out.
C24_KnownCheckoutsDistinguished ==
    \A w \in Workers :
        ( /\ Responding(w, Reconciliations) /\ Outcome(w) # "other"
          /\ (req[w].cid = 0 \/ KnownCheckout(req[w].cid)) )
        => Told(req[w].resp) = Outcome(w)

\* The pending orders that carry a checkout identifier.
PendingWithCheckout(os, cid) ==
    {i \in 1..Len(os) : os[i].checkout_id = cid /\ ~IsPaid(os[i])}

\* C25: a checkout.completed webhook that names a checkout but no order
\* reference, while a pending order carries that checkout identifier, is
\* not dismissed: the handler fetches the status of the checkout.
C25_WebhookResolvesByCheckout ==
    \A w \in Workers :
        ( /\ Responding(w, {"webhook"})
          /\ req[w].event.type = "checkout.completed"
          /\ req[w].ref = "" /\ KnownCheckout(req[w].cid)
          /\ PendingWithCheckout(orders, req[w].cid) # {} )
        => req[w].fetched /\ req[w].resp # "200 ignored"

\* The records of the ledger os that carry the identifier id.
Record(os, id) == {i \in 1..Len(os) : os[i]._id = id}

\* C26: with requests one after the other, a record that carries a checkout
\* identifier carries the same one after every step, as long as it is in
\* the ledger.
C26_CheckoutIdImmutable ==
    [][~overlap =>
         \A i \in 1..Len(orders) :
            orders[i].checkout_id # 0
            => \A j \in Record(orders', orders[i]._id) :
                  orders'[j].checkout_id = orders[i].checkout_id]_vars

\* C27: a record that carries a checkout identifier is in the ledger after
\* every step.
C27_OrdersNeverRemoved ==
    [][\A i \in 1..Len(orders) :
          orders[i].checkout_id # 0 => Record(orders', orders[i]._id) # {}]_vars

\* The fields of a record that tell how it was paid, as a verified write
\* sets them: the card method and the checkout of the provider.
LooksVerified(o) == o.payment_method = "SUMUP_CARD" /\ o.checkout_id # 0

\* C28: the record that a direct confirmation writes as paid never has the
\* payment method and a checkout identifier as a provider-verified record
\* has them.
C28_DirectDistinguished ==
    [][\A w \in Workers :
          WritesPaid(w, {"create_paid_order"})
          => \A j \in Record(orders', WrittenId(w)) :
                ~LooksVerified(orders'[j])]_vars

\* A direct confirmation that wrote a record looking verified and has
\* answered left an audit entry for the order.
C28_AuditEntryLeft ==
    \A w \in Workers :
        ( /\ Responding(w, {"create_paid_order"}) /\ req[w].wrote
          /\ \E j \in Matching(orders, req[w].ref) : LooksVerified(orders[j]) )
        => audits[req[w].ref] > 0

\* C29: get_sumup_access_token takes the cached token, without a request
\* to the provider, exactly when a token is cached and its recorded expiry
\* is more than Margin seconds after the time it read; otherwise it asks
\* the provider, and when that succeeds it stores the token it got and, as
\* its expiry, the time it read before the request plus the lifetime the
\* provider reported.
C29_TokenCaching ==
    [][\A w \in Workers :
          /\ (auth[w].pc = "idle" /\ auth'[w].pc # "idle" /\ sumup_config)
             => /\ auth'[w].now = clock
                /\ auth'[w].pc =
                     IF /\ sumup_token_cache.access_token # 0
                        /\ sumup_token_cache.expires_at.t = "num"
                        /\ sumup_token_cache.expires_at.v > clock + Margin
                     THEN "return_cached" ELSE "post"
                /\ UNCHANGED <<issued, sumup_token_cache>>
          /\ (auth[w].pc = "return_cached" /\ auth'[w].pc # "return_cached")
             => /\ auth'[w].pc = "returned" /\ ~auth'[w].posted
                /\ auth'[w].result = sumup_token_cache.access_token
                /\ UNCHANGED <<issued, sumup_token_cache>>
          /\ (auth[w].pc = "post" /\ auth'[w].pc = "store_access_token")
             => /\ Len(issued') = Len(issued) + 1
                /\ auth'[w].access_token = Len(issued')
                /\ issued'[Len(issued')] = clock + auth'[w].expires_in
                /\ UNCHANGED sumup_token_cache
          /\ (auth[w].pc = "store_access_token" /\ auth'[w].pc # "store_access_token")
             => /\ auth'[w].pc = "store_expires_at"
                /\ sumup_token_cache'.access_token = auth[w].access_token
          /\ (auth[w].pc = "store_expires_at" /\ auth'[w].pc # "store_expires_at")
             => /\ auth'[w].pc = "returned"
                /\ auth'[w].result = auth[w].access_token
                /\ sumup_token_cache'.expires_at =
                      PyNum(auth[w].now + auth[w].expires_in)]_vars

\* A call took the cached token after the cache had been renewed once.
C29_Witness ==
    \E w \in Workers :
        /\ auth[w].pc = "returned" /\ auth[w].hit /\ ~auth[w].posted
        /\ auth[w].result = 2 /\ Len(issued) = 2
        /\ \A v \in Workers \ {w} : auth[v].pc = "idle"

\* The cached token is paired with an expiry that is not later than its own.
CachePaired ==
    (sumup_token_cache.access_token # 0 /\ sumup_token_cache.expires_at.t = "num")
    => sumup_token_cache.expires_at.v <= issued[sumup_token_cache.access_token]

\* The token a call took from the cache had not expired when the call
\* read the time.
CachedTokenAlive ==
    \A w \in Workers :
        (auth[w].pc = "returned" /\ auth[w].hit)
        => issued[auth[w].result] > auth[w].now

\* C30: however calls of get_sumup_access_token interleave, the cache never
\* pairs a token with an expiry later than the token's own, and no call
\* takes from the cache a token that has expired.
C30_CacheNeverStale == CachePaired /\ CachedTokenAlive

\* C31: a callback or a webhook that has come to its status request
\* answers in the end, whatever the provider does.
C31_VerificationReturns ==
    \A w \in Workers :
        (req[w].kind \in {"callback", "webhook"} /\ req[w].pc = "fetch")
        ~> (req[w].pc = "respond")

\* The same in a finite run: a request in flight has a step to take.
C31_NeverBlocked ==
    \A w \in Workers :
        (req[w].pc \notin {"idle", "respond"} /\ \A v \in Workers : req[v].pc # "respond")
        => ENABLED Running(w)

\* C32: every item that the normalizer keeps has a unit price that is not
\* negative, and the subtotal of the normalized cart is not negative.
C32_PricesNotNegative ==
    /\ \A i \in 1..Len(normalized_items) : normalized_items[i].price >= 0
    /\ calculated_total.t = "num" => calculated_total.v >= 0

\* The quantity an entry counts with: its whole part when that is at least
\* 1, else 1.
CountedQuantity(q) == IF q.t = "num" /\ q.v >= 1000 THEN q.v \div 1000 ELSE 1

\* The unit price an entry counts with, in cents: 0 when it is no number.
CountedPrice(p) == IF p.t = "num" THEN Round2(p.v) ELSE 0

\* An entry names a product.
Survives(e) == e.product_id # "" \/ e.productId # "" \/ e.id # "" \/ e.product # ""

\* The sum of unit price times quantity over the entries that survive.
RECURSIVE ExpectedSubtotal(_)
ExpectedSubtotal(raw) ==
    IF raw = <<>> THEN 0
    ELSE (IF Survives(Head(raw))
          THEN CountedPrice(Head(raw).price) * CountedQuantity(Head(raw).quantity)
          ELSE 0) + ExpectedSubtotal(Tail(raw))

\* C33: the subtotal of a submitted cart is the sum, over the entries that
\* name a product, of unit price times quantity, with 1 for a quantity that
\* is missing, no number or not positive and 0 for a price that is no
\* number; the total the client sent plays no part.
C33_SubtotalIntegrity ==
    /\ calculated_total.t = "num"
       => calculated_total.v = ExpectedSubtotal(raw_items)
    /\ calculated_total = NoValidItems
       => \A i \in 1..Len(raw_items) : ~Survives(raw_items[i])

\* The cart of two entries, 10.004 at quantity 2.5 and a price that is no
\* number at quantity 0, sent with a total of 99.00, has the subtotal 20.00.
C33_Witness ==
    /\ raw_items = << RawItem("P1", "", PyNum(2500), PyNum(10004)),
                      RawItem("P1", "", PyNum(0), PyText) >>
    /\ raw_total = PyNum(99000)
    /\ Len(normalized_items) = 2
    /\ calculated_total = PyNum(2000)

\* C34: the total of the record that a direct confirmation writes is the
\* sum of unit price times quantity over the items of that record.
C34_DirectTotalComputed ==
    [][\A w \in Workers :
          WritesPaid(w, {"create_paid_order"})
          => \A j \in Record(orders', WrittenId(w)) :
                orders'[j].total = CalculatedTotal(orders'[j].items)]_vars

\* C35: with requests one after the other, a callback or a webhook that
\* makes an order paid has fetched the checkout that is stored on that
\* order, and that checkout was created for the order's reference.
C35_OwnCheckoutVerified ==
    [][\A w \in Workers : \A i \in Record(orders, WrittenId(w)) :
          ( /\ ~overlap /\ WritesPaid(w, {"callback", "webhook"})
            /\ ~IsPaid(orders[i]) )
          => /\ orders[i].checkout_id = req[w].cid
             /\ provider[req[w].cid].checkout_reference = orders[i].order_id]_vars

\* The records of the ledger that a step removes.
Removed == {i \in 1..Len(orders) : Record(orders', orders[i]._id) = {}}

\* C36: the cart clearing after a payment removes only records that are
\* pending and carry the purchaser's email, user reference or the order
\* reference it was given; every other record, and every paid one, stays as
\* it is; with no email, no user reference and no order reference nothing
\* is removed.
C36_ClearingRemovesOnlyPending ==
    [][\A w \in Workers :
          (req[w].pc = "clear" /\ req'[w].pc = "respond")
          => LET a == req[w].args[1]
                 direct == req[w].kind = "create_paid_order"
                 email == normalize_email(IF direct /\ a.email = ""
                                          THEN a.user ELSE a.email)
                 ref == IF direct THEN "" ELSE req[w].ref
             IN  /\ \A i \in Removed :
                       /\ orders[i].payment_status = "pending"
                       /\ \/ email # "" /\ email \in {orders[i].email, orders[i].user}
                          \/ a.user_id # "" /\ orders[i].user_id = a.user_id
                          \/ ref # "" /\ orders[i].order_id = ref
                 /\ \A i \in (1..Len(orders)) \ Removed :
                       \E j \in 1..Len(orders') : orders'[j] = orders[i]
                 /\ Len(orders') = Len(orders) - Cardinality(Removed)
                 /\ (email = "" /\ a.user_id = "" /\ ref = "") => orders' = orders]_vars

\* A direct confirmation without email and user has been recorded and
\* answered while a pending order is in the ledger.
C36_Witness ==
    \E w \in Workers :
        /\ Responding(w, {"create_paid_order"}) /\ req[w].wrote
        /\ req[w].resp = "200 order saved"
        /\ \E i \in Matching(orders, req[w].ref) :
              /\ IsPaid(orders[i]) /\ orders[i].email = "" /\ orders[i].user = ""
              /\ orders[i].user_id = ""
        /\ \E i \in 1..Len(orders) : orders[i].payment_status = "pending"

\* What the paid transition of a callback or a webhook leaves alone.
SameOrder(o, n) ==
    /\ n.order_id = o.order_id /\ n.items = o.items
    /\ n.email = o.email /\ n.customer_name = o.customer_name
    /\ n.user = o.user /\ n.user_id = o.user_id
    /\ n.shipping_address = o.shipping_address
    /\ n.created_at = o.created_at

\* C37: when a callback or a webhook makes a pending record paid, the
\* record keeps its reference, items, email, customer name, user, user
\* reference, shipping address and creation time; the state, the checkout
\* identifier, the amount, the currency and the payment method are the
\* ones of the verified payment.
C37_PaidTransitionFrame ==
    [][\A w \in Workers : \A i \in Record(orders, WrittenId(w)) :
          (WritesPaid(w, {"callback", "webhook"}) /\ ~IsPaid(orders[i]))
          => /\ Len(orders') = Len(orders)
             /\ \A k \in (1..Len(orders)) \ {i} : orders'[k] = orders[k]
             /\ SameOrder(orders[i], orders'[i])
             /\ orders'[i].payment_status = "paid" /\ orders'[i].status = "paid"
             /\ orders'[i].checkout_id = req[w].cid
             /\ orders'[i].total = req[w].ver[1].amount
             /\ orders'[i].currency = req[w].ver[1].currency
             /\ orders'[i].payment_method = "SUMUP_CARD"]_vars

\* A webhook has made paid a pending order that has a customer email, a
\* user, items and a shipping address.
C37_Witness ==
    \E w \in Workers :
        /\ Responding(w, {"webhook"}) /\ req[w].wrote /\ ~req[w].paidAtStart
        /\ req[w].resp = "200 ok"
        /\ \E i \in Matching(orders, req[w].ref) :
              /\ IsPaid(orders[i]) /\ orders[i].email = "a@x"
              /\ orders[i].user = "a@x" /\ orders[i].items # <<>>
              /\ orders[i].shipping_address = "NL" /\ orders[i].customer_name = "Ann"
              /\ orders[i].checkout_id = req[w].cid

====
